---- MODULE Spec2Model ----
(***************************************************************************)
(* Model of app.py: the retrying retrieval layer (safe_get), the category  *)
(* resolver (fetch_category_map), the event normalizer (parse_event), the  *)
(* cache store (save_cache / load_cache), the background FetchWorker and   *)
(* the consumer side of App (signal handlers, filters, cache actions).     *)
(*                                                                         *)
(* Python values are represented as follows.                               *)
(*   str          a sequence of one-character strings                      *)
(*   None / x     the optional value <<>> / <<x>>                          *)
(*   dict         a function; list: a sequence                             *)
(***************************************************************************)
EXTENDS Integers, Sequences, FiniteSets, TLC

(* ------------------------------ bounds --------------------------------- *)
\* most pages of the category collection
MaxCatPages == 2
\* most entries on one page of the category collection
MaxCatEntries == 1
\* largest value of the UTC clock
MaxClock == 1

(* --------------------------- program constants ------------------------- *)
\* default of the retries parameter of safe_get
Retries == 3
\* page size asked of both endpoints
PER_PAGE == 100

(* ------------------------------ strings -------------------------------- *)
None == <<>>
Some(x) == <<x>>
IsNone(o) == o = <<>>
Val(o) == o[1]

Digits == <<"0", "1", "2", "3", "4", "5", "6", "7", "8", "9">>
IsDigit(c) == \E i \in 1..10 : Digits[i] = c
DigitVal(c) == (CHOOSE i \in 1..10 : Digits[i] = c) - 1

\* the characters the model uses, in code point order (the en dash, written
\* "~", comes after the letters)
Alphabet == <<" ", ",", "-", ".", "0", "1", "2", "3", "4", "5", "6", "7", "8", "9",
              "B", "E", "F", "W", "Z", "a", "b", "c", "e", "f", "g", "i", "n", "o", "r",
              "w", "x", "z", "~">>
Ord(c) == CHOOSE i \in 1..Len(Alphabet) : Alphabet[i] = c

\* str(n) for an int n
RECURSIVE NatToStr(_)
NatToStr(n) == IF n < 10 THEN <<Digits[n + 1]>>
               ELSE NatToStr(n \div 10) \o <<Digits[(n % 10) + 1]>>
IntToStr(n) == IF n < 0 THEN <<"-">> \o NatToStr(0 - n) ELSE NatToStr(n)

\* str.strip()
RECURSIVE LStrip(_)
LStrip(s) == IF s # <<>> /\ Head(s) = " " THEN LStrip(Tail(s)) ELSE s
RECURSIVE RStrip(_)
RStrip(s) == IF s # <<>> /\ s[Len(s)] = " " THEN RStrip(SubSeq(s, 1, Len(s) - 1)) ELSE s
Strip(s) == RStrip(LStrip(s))

\* int(s) for a str s: None when the conversion raises ValueError
RECURSIVE DigitsToNat(_)
DigitsToNat(s) == IF s = <<>> THEN 0
                  ELSE 10 * DigitsToNat(SubSeq(s, 1, Len(s) - 1)) + DigitVal(s[Len(s)])
AllDigits(s) == s # <<>> /\ \A i \in 1..Len(s) : IsDigit(s[i])
StrToInt(s) ==
    LET t == Strip(s)
    IN  IF AllDigits(t) THEN Some(DigitsToNat(t))
        ELSE IF t # <<>> /\ Head(t) = "-" /\ AllDigits(Tail(t)) THEN Some(0 - DigitsToNat(Tail(t)))
        ELSE IF t # <<>> /\ Head(t) = "+" /\ AllDigits(Tail(t)) THEN Some(DigitsToNat(Tail(t)))
        ELSE None

\* sep.join(parts)
RECURSIVE Join(_, _)
Join(parts, sep) == IF parts = <<>> THEN <<>>
                    ELSE IF Len(parts) = 1 THEN parts[1]
                    ELSE parts[1] \o sep \o Join(Tail(parts), sep)

\* s.split(",")
RECURSIVE SplitComma(_)
SplitComma(s) ==
    IF \A i \in 1..Len(s) : s[i] # "," THEN <<s>>
    ELSE LET k == CHOOSE i \in 1..Len(s) : s[i] = "," /\ \A j \in 1..(i - 1) : s[j] # ","
         IN  <<SubSeq(s, 1, k - 1)>> \o SplitComma(SubSeq(s, k + 1, Len(s)))

\* s < t for two str, by code points
RECURSIVE StrLess(_, _)
StrLess(s, t) == IF t = <<>> THEN FALSE
                 ELSE IF s = <<>> THEN TRUE
                 ELSE IF Head(s) = Head(t) THEN StrLess(Tail(s), Tail(t))
                 ELSE Ord(Head(s)) < Ord(Head(t))

\* sorted(S) for a set S of str
RECURSIVE SortedStrs(_)
SortedStrs(S) == IF S = {} THEN <<>>
                 ELSE LET m == CHOOSE x \in S : \A y \in S \ {x} : StrLess(x, y)
                      IN  <<m>> \o SortedStrs(S \ {m})

Range(s) == {s[i] : i \in 1..Len(s)}

(* ------------------------------- dates --------------------------------- *)
IsLeap(y) == (y % 4 = 0 /\ y % 100 # 0) \/ y % 400 = 0
DaysIn(y, m) == IF m = 2 THEN (IF IsLeap(y) THEN 29 ELSE 28)
                ELSE IF m \in {4, 6, 9, 11} THEN 30 ELSE 31

\* length matched by the %m directive at the start of r, per alternative
\* 1[0-2] | 0[1-9] | [1-9]; 0 when the alternative does not match
MonthAlt(r, alt) ==
    IF alt = 1 THEN (IF Len(r) >= 2 /\ r[1] = "1" /\ r[2] \in {"0", "1", "2"} THEN 2 ELSE 0)
    ELSE IF alt = 2 THEN (IF Len(r) >= 2 /\ r[1] = "0" /\ IsDigit(r[2]) /\ r[2] # "0" THEN 2 ELSE 0)
    ELSE (IF Len(r) >= 1 /\ IsDigit(r[1]) /\ r[1] # "0" THEN 1 ELSE 0)

\* length matched by the %d directive at the start of r:
\* 3[0-1] | [1-2]\d | 0[1-9] | [1-9] | " "[1-9]; 0 when none matches
DayLen(r) ==
    IF Len(r) >= 2 /\ r[1] = "3" /\ r[2] \in {"0", "1"} THEN 2
    ELSE IF Len(r) >= 2 /\ r[1] \in {"1", "2"} /\ IsDigit(r[2]) THEN 2
    ELSE IF Len(r) >= 2 /\ r[1] = "0" /\ IsDigit(r[2]) /\ r[2] # "0" THEN 2
    ELSE IF Len(r) >= 1 /\ IsDigit(r[1]) /\ r[1] # "0" THEN 1
    ELSE IF Len(r) >= 2 /\ r[1] = " " /\ IsDigit(r[2]) /\ r[2] # "0" THEN 2
    ELSE 0

\* date.isoformat(): YYYY-MM-DD
Pad(n, w) == LET s == NatToStr(n)
             IN  [i \in 1..(w - Len(s)) |-> "0"] \o s
IsoFormat(y, m, d) == Pad(y, 4) \o <<"-">> \o Pad(m, 2) \o <<"-">> \o Pad(d, 2)

\* datetime.strptime(s, "%Y%m%d").date() as <<y, m, d>>, None on ValueError
StrpYmd(s) ==
    IF ~(Len(s) >= 4 /\ \A i \in 1..4 : IsDigit(s[i])) THEN None
    ELSE
      LET y     == DigitsToNat(SubSeq(s, 1, 4))
          r     == SubSeq(s, 5, Len(s))
          okAlt == {a \in 1..3 : MonthAlt(r, a) > 0
                                 /\ DayLen(SubSeq(r, MonthAlt(r, a) + 1, Len(r))) > 0}
      IN  IF okAlt = {} THEN None
          ELSE
            LET a    == CHOOSE x \in okAlt : \A z \in okAlt : x <= z
                ml   == MonthAlt(r, a)
                rest == SubSeq(r, ml + 1, Len(r))
                dl   == DayLen(rest)
                m    == DigitsToNat(SubSeq(r, 1, ml))
                d    == DigitsToNat(Strip(SubSeq(rest, 1, dl)))
            IN  IF ml + dl # Len(r) THEN None
                ELSE IF y < 1 \/ d > DaysIn(y, m) THEN None
                ELSE Some(<<y, m, d>>)

\* to_iso(d) inside parse_event; d is an optional str
to_iso(d) ==
    IF IsNone(d) THEN None
    ELSE LET p == StrpYmd(Val(d))
         IN  IF IsNone(p) THEN None ELSE Some(IsoFormat(Val(p)[1], Val(p)[2], Val(p)[3]))

\* to_date(s) inside apply_filters; s is the optional str of column Kezdete
\* (str(None) is "None", which fromisoformat rejects)
to_date(s) ==
    IF IsNone(s) THEN None
    ELSE LET t == Val(s)
         IN  IF Len(t) = 10 /\ t[5] = "-" /\ t[8] = "-"
                /\ \A i \in {1, 2, 3, 4, 6, 7, 9, 10} : IsDigit(t[i])
             THEN LET y == DigitsToNat(SubSeq(t, 1, 4))
                      m == DigitsToNat(SubSeq(t, 6, 7))
                      d == DigitsToNat(SubSeq(t, 9, 10))
                  IN  IF y >= 1 /\ m \in 1..12 /\ d >= 1 /\ d <= DaysIn(y, m)
                      THEN Some(<<y, m, d>>) ELSE None
             ELSE None

\* d1 <= d2 for two dates <<y, m, d>>
DateLeq(a, b) == \/ a[1] < b[1]
                 \/ a[1] = b[1] /\ a[2] < b[2]
                 \/ a[1] = b[1] /\ a[2] = b[2] /\ a[3] <= b[3]

(* ------------------------------ test data ------------------------------ *)
\* the en dash sentinel of parse_event is written "~"
EnDash == <<"~">>
Bor == <<"B", "o", "r">>
Zene == <<"Z", "e", "n", "e">>

\* custom-field bags (acf / meta) of raw records
AcfOct == [esemeny_kezdete |-> Some(<<"2", "0", "2", "4", "1", "0", "0", "1">>),
           esemeny_vege |-> Some(<<"2", "0", "2", "4", "1", "0", "0", "2">>),
           helyszin_rovid_neve |-> None,
           city |-> Some(<<"Z", "i", "r", "c">>)]
AcfSep == [esemeny_kezdete |-> Some(<<"2", "0", "2", "4", "0", "9", "0", "1">>),
           esemeny_vege |-> None,
           helyszin_rovid_neve |-> Some(<<"E", "g", "e", "r">>),
           city |-> None]
AcfBad == [esemeny_kezdete |-> Some(<<"2", "0", "2", "4", "1", "3", "0", "1">>),
           esemeny_vege |-> None,
           helyszin_rovid_neve |-> None,
           city |-> None]

\* raw records the posts endpoint may return; a category id is held as the text
\* str(cid) of its JSON value, int(cid) being StrToInt of that text
PostFair == [title |-> Some(<<"F", "a", "i", "r">>), link |-> Some(<<"f">>),
             acf |-> Some(AcfOct), meta |-> None, categories |-> << <<"1">> >>]
PostWine == [title |-> Some(<<" ", "W", "i", "n", "e">>), link |-> None,
             acf |-> None, meta |-> Some(AcfSep), categories |-> << <<"2">>, <<"7">> >>]
PostBad  == [title |-> None, link |-> Some(<<"b">>),
             acf |-> Some(AcfBad), meta |-> None, categories |-> <<>>]
\* a record whose second category id is the JSON string "x"
PostOddCat == [title |-> Some(<<"F", "a", "i", "r">>), link |-> Some(<<"f">>),
               acf |-> Some(AcfOct), meta |-> None, categories |-> << <<"1">>, <<"x">> >>]
\* PostFair again, at another place
PostFairEger == [title |-> Some(<<"F", "a", "i", "r">>), link |-> Some(<<"f">>),
                 acf |-> Some([AcfOct EXCEPT !.helyszin_rovid_neve = Some(<<"E", "g", "e", "r">>)]),
                 meta |-> None, categories |-> << <<"1">> >>]
RawPosts == {PostFair, PostWine, PostBad}

\* entries the categories endpoint may return (id and name are optional)
CatEntries == {[id |-> Some(1), name |-> Some(Bor)],
               [id |-> Some(2), name |-> Some(Zene)],
               [id |-> Some(1), name |-> Some(Zene)],
               [id |-> None, name |-> Some(Bor)],
               [id |-> Some(2), name |-> None]}

(* --------------------------- parse_event -------------------------------- *)
\* x or y, for optional str / optional record values
Falsy(o) == IsNone(o) \/ Val(o) = <<>>
OrElse(a, b) == IF Falsy(a) THEN b ELSE a

\* cat_map.get(int(cid), str(cid)), for a cid that int() accepts
CatName(cat_map, cid) ==
    LET k == Val(StrToInt(cid))
    IN  IF k \in DOMAIN cat_map THEN cat_map[k] ELSE cid

\* parse_event raises: int(cid) is outside any try block, so a category id
\* that int() rejects ends the call with ValueError
parse_event_raises(post) ==
    \E i \in 1..Len(post.categories) : IsNone(StrToInt(post.categories[i]))

\* the Event parse_event returns when it does not raise
parse_event(post, cat_map) ==
    LET title == Strip(IF Falsy(post.title) THEN <<>> ELSE Val(post.title))
        link  == IF Falsy(post.link) THEN <<>> ELSE Val(post.link)
        bag   == IF post.acf # None THEN post.acf ELSE post.meta
        get(f) == IF bag = None THEN None ELSE Val(bag)[f]
        start == to_iso(get("esemeny_kezdete"))
        end   == to_iso(get("esemeny_vege"))
        place == Val(OrElse(get("helyszin_rovid_neve"), OrElse(get("city"), Some(EnDash))))
        names == [i \in 1..Len(post.categories) |-> CatName(cat_map, post.categories[i])]
        cats  == IF names # <<>> THEN Join(names, <<",", " ">>) ELSE EnDash
    IN  [EsemenyNeve |-> title, Kezdete |-> start, Vege |-> end,
         Helyszin |-> place, Kategoria |-> cats, Aloldal |-> link]

\* the list comprehension below raises when parse_event raises for a record
ParseRaises(posts) == \E i \in 1..Len(posts) : parse_event_raises(posts[i])

\* [parse_event(p, cat_map) for p in posts]
ParseAll(posts, cat_map) == [i \in 1..Len(posts) |-> parse_event(posts[i], cat_map)]

\* a row filter that tests != "" and forgets notna()
HasStartNotEmpty(e) == IsNone(e.Kezdete) \/ Val(e.Kezdete) # <<>>

\* df[df["Kezdete"].notna() & (df["Kezdete"] != "")]
HasStart(e) == ~IsNone(e.Kezdete) /\ Val(e.Kezdete) # <<>>
RECURSIVE SelectSeqBy(_, _)
SelectSeqBy(s, keep) == IF s = <<>> THEN <<>>
                        ELSE (IF keep[1] THEN <<Head(s)>> ELSE <<>>)
                             \o SelectSeqBy(Tail(s), Tail(keep))
KeepWithStart(events) == SelectSeqBy(events, [i \in 1..Len(events) |-> HasStart(events[i])])

(* ----------------------------- cache store ------------------------------ *)
\* a cache artifact: missing, not JSON text, JSON text that is not an object
\* (a list, a number, ...), or a JSON object
Absent == [kind |-> "absent"]
Corrupt == [kind |-> "corrupt"]
NotObject == [kind |-> "other"]
Json(d) == [kind |-> "json", data |-> d]

\* json.dumps(cat_map): int keys are written as text
DumpCats(cat_map) ==
    LET keys == {IntToStr(k) : k \in DOMAIN cat_map}
    IN  [ks \in keys |-> cat_map[Val(StrToInt(ks))]]
\* json.dumps({"fetched_at": ..., "posts": posts})
DumpPosts(posts, fetched_at) == [fetched_at |-> Some(fetched_at), posts |-> Some(posts)]

\* a load_cache that keeps a key only if it is made of digits
load_cache_digits(cats_file, posts_file) ==
    IF cats_file.kind # "json" \/ posts_file.kind # "json" THEN <<None, None, None>>
    ELSE LET raw  == cats_file.data
             good == {ks \in DOMAIN raw : AllDigits(ks)}
             ids  == {DigitsToNat(ks) : ks \in good}
             cat_map == [k \in ids |-> raw[CHOOSE ks \in good : DigitsToNat(ks) = k]]
             env   == posts_file.data
             posts == IF IsNone(env.posts) THEN <<>> ELSE Val(env.posts)
         IN  <<Some(cat_map), Some(posts), env.fetched_at>>

\* a load_cache whose try block covers the envelope only: the category map is
\* returned although the envelope could not be read
load_cache_partial(cats_file, posts_file) ==
    IF cats_file.kind # "json" THEN <<None, None, None>>
    ELSE LET raw  == cats_file.data
             good == {ks \in DOMAIN raw : ~IsNone(StrToInt(ks))}
             ids  == {Val(StrToInt(ks)) : ks \in good}
             cat_map == [k \in ids |-> raw[CHOOSE ks \in good : Val(StrToInt(ks)) = k]]
         IN  IF posts_file.kind # "json" THEN <<Some(cat_map), None, None>>
             ELSE <<Some(cat_map),
                    Some(IF IsNone(posts_file.data.posts) THEN <<>> ELSE Val(posts_file.data.posts)),
                    posts_file.data.fetched_at>>

\* load_cache(): <<cat_map, posts, fetched_at>>, each optional.  json.loads
\* raises on text that is not JSON, .items() and .get() raise on a document
\* that is not an object; every exception ends in `return None, None, None`.
\* The envelope is a record of its optional entries "fetched_at" and "posts".
NoCache == <<None, None, None>>
load_cache(cats_file, posts_file) ==
    IF ~(cats_file.kind # "absent" /\ posts_file.kind # "absent") THEN NoCache
    ELSE IF cats_file.kind # "json" \/ posts_file.kind # "json" THEN NoCache
    ELSE LET raw  == cats_file.data
             good == {ks \in DOMAIN raw : ~IsNone(StrToInt(ks))}
             ids  == {Val(StrToInt(ks)) : ks \in good}
             cat_map == [k \in ids |-> raw[CHOOSE ks \in good : Val(StrToInt(ks)) = k]]
             env   == posts_file.data
             posts == IF IsNone(env.posts) THEN <<>> ELSE Val(env.posts)
         IN  <<Some(cat_map), Some(posts), env.fetched_at>>

(* ----------------------------- filter engine --------------------------- *)
\* str.lower() on the characters of the model
Lower(c) == IF c = "B" THEN "b" ELSE IF c = "E" THEN "e" ELSE IF c = "F" THEN "f"
            ELSE IF c = "W" THEN "w" ELSE IF c = "Z" THEN "z" ELSE c
LowerStr(s) == [i \in 1..Len(s) |-> Lower(s[i])]
\* Series.str.contains(q) with its default regex=True is re.search(q, s): q is
\* a pattern, modelled for patterns of literal characters and "." (any character)
Contains(s, q) ==
    \E i \in 0..(Len(s) - Len(q)) : \A j \in 1..Len(q) : q[j] = "." \/ s[i + j] = q[j]

\* has_any(cat_str) inside apply_filters
has_any(cat_str, sel) ==
    LET raw   == SplitComma(cat_str)
        parts == {Strip(raw[i]) : i \in 1..Len(raw)}
    IN  \E x \in sel : x \in parts

\* sort key order of sort_values(by=["Kezdete", "Esemeny neve"])
KeyLeq(a, b) == \/ StrLess(Val(a.Kezdete), Val(b.Kezdete))
                \/ /\ a.Kezdete = b.Kezdete
                   /\ (a.EsemenyNeve = b.EsemenyNeve \/ StrLess(a.EsemenyNeve, b.EsemenyNeve))
\* an insertion that puts a row before the rows of equal key (a sort that is
\* not stable)
RECURSIVE InsertSortedBefore(_, _)
InsertSortedBefore(s, e) ==
    IF s = <<>> THEN <<e>>
    ELSE IF KeyLeq(Head(s), e) /\ ~KeyLeq(e, Head(s))
         THEN <<Head(s)>> \o InsertSortedBefore(Tail(s), e)
         ELSE <<e>> \o s

\* the lexsort behind sort_values keeps rows of equal key in their order
RECURSIVE InsertSorted(_, _)
InsertSorted(s, e) == IF s = <<>> THEN <<e>>
                      ELSE IF KeyLeq(Head(s), e) THEN <<Head(s)>> \o InsertSorted(Tail(s), e)
                      ELSE <<e>> \o s
RECURSIVE SortEvents(_)
SortEvents(s) == IF s = <<>> THEN <<>>
                 ELSE InsertSorted(SortEvents(SubSeq(s, 1, Len(s) - 1)), s[Len(s)])

Filter(s, P(_)) == SelectSeqBy(s, [i \in 1..Len(s) |-> P(s[i])])

\* apply_filters(): the new value of df_view
apply_filters(ld, lv, all, dfrom, dto, sel, txt) ==
    IF ld /\ ~lv THEN <<>>
    ELSE IF all = <<>> THEN <<>>
    ELSE
      LET parsed(e)  == ~IsNone(to_date(e.Kezdete))
          inRange(e) == DateLeq(dfrom, Val(to_date(e.Kezdete))) /\ DateLeq(Val(to_date(e.Kezdete)), dto)
          inCats(e)  == has_any(e.Kategoria, sel)
          q          == LowerStr(Strip(txt))
          hit(e)     == Contains(LowerStr(e.EsemenyNeve), q) \/ Contains(LowerStr(e.Helyszin), q)
          d1 == Filter(all, parsed)
          d2 == IF d1 # <<>> THEN Filter(d1, inRange) ELSE d1
          d3 == IF sel # {} /\ d2 # <<>> THEN Filter(d2, inCats) ELSE d2
          d4 == IF q # <<>> /\ d3 # <<>> THEN Filter(d3, hit) ELSE d3
      IN  IF d4 # <<>> THEN SortEvents(d4) ELSE d4

\* the category names of a frame: {c.strip() for x in df["Kategoria"] for c in x.split(",") if c.strip()}
CatNamesOf(df) ==
    UNION {LET raw == SplitComma(df[i].Kategoria)
           IN  {Strip(raw[j]) : j \in 1..Len(raw)} \ {<<>>} : i \in 1..Len(df)}

\* load_initial(): <<df_all, list_cats>> from the two cache artifacts
load_initial(cats_file, posts_file) ==
    LET c == load_cache(cats_file, posts_file)
    IN  IF ~IsNone(c[1]) /\ DOMAIN Val(c[1]) # {} /\ ~IsNone(c[2]) /\ Val(c[2]) # <<>>
        THEN LET df == KeepWithStart(ParseAll(Val(c[2]), Val(c[1])))
             IN  <<df, SortedStrs(CatNamesOf(df))>>
        ELSE <<(<<>>), (<<>>)>>

(* ------------------------------ retrieval ------------------------------- *)
\* a retry loop that gives up one attempt early
safe_get_step_early(attempt, outcome, retries) ==
    IF outcome = "ok" THEN "return"
    ELSE IF outcome = "timeout" THEN (IF attempt = retries - 1 THEN "raise" ELSE "sleep")
    ELSE "raise"

\* a retry loop that catches every request exception
safe_get_step_any(attempt, outcome, retries) ==
    IF outcome = "ok" THEN "return"
    ELSE IF attempt = retries THEN "raise" ELSE "sleep"

\* one pass of the retry loop of safe_get for attempt number `attempt`:
\* "return" the response, "raise" the error, or "sleep" and go on
safe_get_step(attempt, outcome, retries) ==
    IF outcome = "ok" THEN "return"
    ELSE IF outcome = "timeout" THEN (IF attempt = retries THEN "raise" ELSE "sleep")
    ELSE "raise"

\* a loop that stops at the first page that is not full
cat_page_last_short(data) == Len(data) < PER_PAGE

\* `if not data: break` of fetch_category_map
cat_page_last(data) == data = <<>>

\* the `for c in data` loop of fetch_category_map: every entry with an id and a
\* name is stored under its id, a later entry replacing an earlier one
add_entries(cat_map, data) ==
    LET both == {i \in 1..Len(data) : ~IsNone(data[i].id) /\ ~IsNone(data[i].name)}
        ids  == {Val(data[i].id) : i \in both}
        last(k) == CHOOSE i \in both : /\ Val(data[i].id) = k
                                       /\ \A j \in both : Val(data[j].id) = k => j <= i
    IN  [k \in DOMAIN cat_map \cup ids |->
            IF k \in ids THEN Val(data[last(k)].name) ELSE cat_map[k]]

\* int(r.headers.get("X-WP-TotalPages", 1)): None when int() raises
total_pages_of(header) == IF IsNone(header) THEN Some(1) ELSE StrToInt(Val(header))

(* ------------------------------- state ---------------------------------- *)
VARIABLES
    \* App (GUI thread)
    loading,               \* self._loading
    loading_total_pages,   \* self._loading_total_pages
    loading_current_page,  \* self._loading_current_page
    df_all,                \* self.df_all, a sequence of Events
    df_view,               \* self.df_view
    live,                  \* chk_live_filter.isChecked()
    date_from, date_to,    \* the two QDateEdit values
    search,                \* txt_search.text()
    list_cats,             \* items of the category list
    selected,              \* selected items of the category list
    gui_pc,                \* position of the GUI thread inside clear_cache
    loaded,                \* the locals cat_map, posts, fetched_at of load_initial,
                           \* dead once it returns: kept until a run starts
    \* FetchWorker.run (worker thread)
    pc,                    \* position inside run
    page,                  \* page being fetched
    cat_map,               \* category table under construction
    posts,                 \* raw-record aggregate
    total_pages,
    fetched_at,
    attempt,               \* loop variable of safe_get, 0 outside a call
    outs,                  \* outcomes of the attempts of the current safe_get call
    sleeps,                \* time.sleep calls of the current safe_get call
    cat_pages,             \* <<page, response>> of each request of fetch_category_map
    \* queued signals from the worker to App, in emission order
    queue,
    \* the two cache artifacts
    cats_file, posts_file,
    \* datetime.utcnow()
    clock,
    \* what the two endpoints hold: category pages, post pages, X-WP-TotalPages
    server,
    \* bookkeeping of the current run
    active,                \* worker threads started whose terminal signal is unhandled
    emitted,               \* kinds of the signals emitted by the current run
    disk0,                 \* the two artifacts when the current run started
    cause,                 \* what made the current run raise, "" if nothing
    df0                    \* df_all when the current run started

app    == <<loading, loading_total_pages, loading_current_page, df_all, df_view,
            date_from, date_to, search, list_cats, selected, loaded>>
worker == <<pc, page, cat_map, posts, total_pages, fetched_at, attempt, outs, sleeps, cat_pages>>
disk   == <<cats_file, posts_file>>
book   == <<active, emitted, disk0, cause, df0>>
vars   == <<app, live, gui_pc, worker, queue, disk, clock, server, book>>

(* ------------------------------- inputs --------------------------------- *)
SeqsUpTo(S, n) == UNION {[1..k -> S] : k \in 0..n}
EmptyMap == [k \in {} |-> <<>>]
Entry(i, n) == [id |-> Some(i), name |-> Some(n)]

\* two category pages, two post pages with an undated record on the first
ServerTwoPages ==
    [cats |-> << <<Entry(1, Bor)>>, <<Entry(2, Zene)>> >>,
     posts |-> << <<PostFair, PostBad>>, <<PostWine>> >>,
     header |-> Some(<<"2">>)]

\* the servers of the full specification
Servers ==
    { ServerTwoPages,
      [cats |-> <<>>,
       posts |-> << <<PostWine>> >>,
       header |-> None],
      [cats |-> << <<Entry(1, Bor)>> >>,
       posts |-> << <<PostBad>> >>,
       header |-> Some(<<"x">>)],
      [cats |-> << <<[id |-> None, name |-> Some(Bor)], [id |-> Some(2), name |-> None]>> >>,
       posts |-> << <<>>, <<PostFair>> >>,
       header |-> Some(<<"2">>)] }

\* the same four records split into pages in four ways, one with an empty page
SplitRecords == <<PostFairEger, PostBad, PostFair, PostWine>>
SplitServers ==
    {[cats |-> << <<Entry(1, Bor)>> >>, posts |-> p, header |-> Some(NatToStr(Len(p)))] :
        p \in { <<SplitRecords>>,
                <<SubSeq(SplitRecords, 1, 1), SubSeq(SplitRecords, 2, 4)>>,
                <<SubSeq(SplitRecords, 1, 3), SubSeq(SplitRecords, 4, 4)>>,
                << <<>>, SplitRecords >> }}

\* the servers of SpecFeed: the splits, the two-page server, an endpoint that
\* reports zero pages in X-WP-TotalPages, and one whose second page holds a
\* record with a category id that is not a number
FeedServers ==
    SplitServers
    \cup { ServerTwoPages,
           [cats |-> << <<Entry(2, Zene)>> >>, posts |-> << <<PostWine>> >>,
            header |-> Some(<<"0">>)],
           [cats |-> << <<Entry(1, Bor)>> >>, posts |-> << <<PostWine>>, <<PostOddCat>> >>,
            header |-> Some(<<"2">>)] }

Today == <<2024, 9, 15>>
NextYear == <<2025, 9, 15>>
DatesFrom == {Today, <<2024, 9, 1>>}
DatesTo == {NextYear, <<2024, 10, 1>>}
Searches == {<<>>, <<"F", "a">>, <<"E", "g">>, <<".">>}

\* a snapshot with an undated record
DiskSnapshot ==
    <<Json(DumpCats(add_entries(EmptyMap, <<Entry(1, Bor)>>))),
      Json(DumpPosts(<<PostBad, PostFair>>, 0))>>

\* cache directories the program may find at start
InitDisks ==
    { <<Absent, Absent>>,
      DiskSnapshot,
      <<Json(DumpCats(EmptyMap)), Json(DumpPosts(<<PostWine>>, 0))>>,
      <<Corrupt, Json(DumpPosts(<<PostFair>>, 0))>> }

\* the category collections of SpecNet: every sequence of at most MaxCatPages pages
\* of at most MaxCatEntries entries (a page may be empty), and the collection
\* with pages of 100, 100 and 37 entries
CatPageSet == SeqsUpTo(CatEntries, MaxCatEntries)
BigPage(from, n) == [i \in 1..n |-> Entry(from + i - 1, IntToStr(from + i - 1))]
BigCats == <<BigPage(1, 100), BigPage(101, 100), BigPage(201, 37)>>
NetServers ==
    {[cats |-> c, posts |-> << <<PostFair>> >>, header |-> Some(<<"1">>)] :
        c \in SeqsUpTo(CatPageSet, MaxCatPages) \cup {BigCats}}

(* -------------------------------- Init ---------------------------------- *)
\* App.__init__: widgets at their defaults, then load_initial()
InitApp ==
    /\ loading = FALSE
    /\ loading_total_pages = 0
    /\ loading_current_page = 0
    /\ live = FALSE
    /\ date_from = Today
    /\ date_to = NextYear
    /\ search = <<>>
    /\ selected = {}
    /\ loaded = load_cache(cats_file, posts_file)
    /\ df_all = load_initial(cats_file, posts_file)[1]
    /\ list_cats = load_initial(cats_file, posts_file)[2]
    /\ df_view = apply_filters(FALSE, FALSE, df_all, date_from, date_to, selected, search)
    /\ gui_pc = "idle"
    /\ pc = "none"
    /\ page = 0
    /\ cat_map = EmptyMap
    /\ posts = <<>>
    /\ total_pages = 0
    /\ fetched_at = 0
    /\ attempt = 0
    /\ outs = <<>>
    /\ sleeps = 0
    /\ cat_pages = <<>>
    /\ queue = <<>>
    /\ active = 0
    /\ emitted = <<>>
    /\ disk0 = <<cats_file, posts_file>>
    /\ cause = ""
    /\ df0 = df_all

Init ==
    /\ \E d \in InitDisks : cats_file = d[1] /\ posts_file = d[2]
    /\ server \in Servers
    /\ clock = 0
    /\ InitApp

(* --------------------------- FetchWorker.run ---------------------------- *)
Sig(k) == [kind |-> k]
Emit(sigs) ==
    /\ queue' = queue \o sigs
    /\ emitted' = emitted \o [i \in 1..Len(sigs) |-> sigs[i].kind]

\* an except branch that reports the failure and lets run go on
RaiseAndGoOn(c) ==
    /\ Emit(<<Sig("failed")>>)
    /\ pc' = pc
    /\ cause' = c

\* except Exception as e: self.failed.emit(str(e))
Raise(c) ==
    /\ Emit(<<Sig("failed")>>)
    /\ pc' = "done"
    /\ cause' = c

\* thread.started -> run: the first status signal, then fetch_category_map begins
WorkerStart ==
    /\ pc = "ready"
    /\ Emit(<<Sig("status")>>)
    /\ pc' = "cats"
    /\ page' = 1
    /\ cat_map' = EmptyMap
    /\ UNCHANGED <<app, live, gui_pc, posts, total_pages, fetched_at, attempt, outs, sleeps,
                   cat_pages, disk, clock, server, active, disk0, cause, df0>>

\* one attempt of safe_get with the given outcome of requests.get / raise_for_status;
\* Returned is what the caller does with the response
Attempt(outcome, Returned, Rest) ==
    LET a    == IF attempt = 0 THEN 1 ELSE attempt
        hist == IF attempt = 0 THEN <<>> ELSE outs
        sl   == IF attempt = 0 THEN 0 ELSE sleeps
        step == safe_get_step(a, outcome, Retries)
    IN  /\ outs' = Append(hist, outcome)
        /\ IF step = "return"
           THEN attempt' = 0 /\ sleeps' = sl /\ Returned
           ELSE IF step = "sleep" /\ a < Retries
           THEN /\ attempt' = a + 1
                /\ sleeps' = sl + 1
                /\ UNCHANGED <<pc, page, cat_map, posts, total_pages, cat_pages, queue,
                               emitted, cause>>
           ELSE /\ attempt' = 0
                /\ sleeps' = (IF step = "sleep" THEN sl + 1 ELSE sl)
                /\ Raise(IF pc = "cats" THEN "cats" ELSE "page")
                /\ UNCHANGED <<page, cat_map, posts, total_pages, cat_pages>>
        /\ Rest

NetRest == UNCHANGED <<app, live, gui_pc, fetched_at, disk, clock, server, active, disk0, df0>>

\* r.json() of a category page inside fetch_category_map
CatsReturned(data) ==
    /\ cat_pages' = Append(cat_pages, <<page, data>>)
    /\ IF cat_page_last(data)
       THEN pc' = "cats_done" /\ UNCHANGED <<page, cat_map>>
       ELSE cat_map' = add_entries(cat_map, data) /\ page' = page + 1 /\ pc' = pc
    /\ UNCHANGED <<posts, total_pages, queue, emitted, cause>>

\* the categories endpoint answers a page past the last one with an empty list
GetCatsOk ==
    /\ pc = "cats"
    /\ Attempt("ok", CatsReturned(IF page <= Len(server.cats) THEN server.cats[page] ELSE <<>>),
               NetRest)

\* fetch_category_map has returned: status signal, then the first posts page
PostsStart ==
    /\ pc = "cats_done"
    /\ Emit(<<Sig("status")>>)
    /\ pc' = "posts"
    /\ page' = 1
    /\ UNCHANGED <<app, live, gui_pc, cat_map, posts, total_pages, fetched_at, attempt, outs,
                   sleeps, cat_pages, disk, clock, server, active, disk0, cause, df0>>

\* the signals of one processed page, and the status signal of the next one if any
PageSignals(p, total, data) ==
    <<[kind |-> "progress", page |-> p, total |-> total],
      [kind |-> "page_events", events |-> ParseAll(data, cat_map)]>>
    \o (IF p + 1 <= total THEN <<Sig("status")>> ELSE <<>>)

PostsReturned(data, header) ==
    LET tp == IF page = 1 THEN total_pages_of(header) ELSE Some(total_pages)
    IN  /\ posts' = (IF page = 1 THEN data ELSE posts \o data)
        /\ cat_pages' = cat_pages
        /\ cat_map' = cat_map
        /\ IF IsNone(tp)
           THEN Raise("header") /\ UNCHANGED <<page, total_pages>>
           ELSE IF ParseRaises(data)
           THEN Raise("parse") /\ total_pages' = Val(tp) /\ page' = page
           ELSE /\ total_pages' = Val(tp)
                /\ Emit(PageSignals(page, Val(tp), data))
                /\ cause' = cause
                /\ IF page + 1 <= Val(tp)
                   THEN page' = page + 1 /\ pc' = pc
                   ELSE page' = page /\ pc' = "persist"

\* a run that saves the cache after every page
GetPostsOkSaving ==
    /\ pc = "posts"
    /\ page <= Len(server.posts)
    /\ Attempt("ok", PostsReturned(server.posts[page], server.header),
               /\ cats_file' = Json(DumpCats(cat_map))
               /\ posts_file' = Json(DumpPosts(posts', clock))
               /\ UNCHANGED <<app, live, gui_pc, fetched_at, clock, server, active, disk0, df0>>)

\* the posts endpoint answers a page past the last one with status 400 (see GetHard)
GetPostsOk ==
    /\ pc = "posts"
    /\ page <= Len(server.posts)
    /\ Attempt("ok", PostsReturned(server.posts[page], server.header), NetRest)

\* requests.exceptions.ReadTimeout
GetTimeout ==
    /\ pc \in {"cats", "posts"}
    /\ Attempt("timeout", FALSE, NetRest)

\* ConnectionError, or HTTPError from raise_for_status
GetHard ==
    /\ pc \in {"cats", "posts"}
    /\ Attempt("hard", FALSE, NetRest)

\* fetched_at = datetime.utcnow().isoformat() + "Z"
TakeTimestamp ==
    /\ pc = "persist"
    /\ \E t \in clock..MaxClock : clock' = t /\ fetched_at' = t
    /\ pc' = "save_cats"
    /\ UNCHANGED <<app, live, gui_pc, page, cat_map, posts, total_pages, attempt, outs, sleeps,
                   cat_pages, queue, disk, server, book>>

\* save_cache: mkdir and CACHE_CATS.write_text
WriteCats ==
    /\ pc = "save_cats"
    /\ cats_file' = Json(DumpCats(cat_map))
    /\ pc' = "save_posts"
    /\ UNCHANGED <<app, live, gui_pc, page, cat_map, posts, total_pages, fetched_at, attempt,
                   outs, sleeps, cat_pages, queue, posts_file, clock, server, book>>

\* a failed write_text leaves the file as it was (mkdir or open failed) or truncated
WriteFailures == {"untouched", "partial"}

\* save_cache: mkdir or CACHE_CATS.write_text raises OSError
WriteCatsFails ==
    /\ pc = "save_cats"
    /\ \E o \in WriteFailures :
          cats_file' = (IF o = "partial" THEN Corrupt ELSE cats_file)
    /\ Raise("save_cats")
    /\ UNCHANGED <<app, live, gui_pc, page, cat_map, posts, total_pages, fetched_at, attempt,
                   outs, sleeps, cat_pages, posts_file, clock, server, active, disk0, df0>>

\* save_cache: CACHE_POSTS.write_text with its own utcnow(), then finished.emit
WritePosts ==
    /\ pc = "save_posts"
    /\ \E t \in clock..MaxClock :
          /\ clock' = t
          /\ posts_file' = Json(DumpPosts(posts, t))
    /\ Emit(<<[kind |-> "finished", cat_map |-> cat_map, posts |-> posts,
               fetched_at |-> fetched_at]>>)
    /\ pc' = "done"
    /\ UNCHANGED <<app, live, gui_pc, page, cat_map, posts, total_pages, fetched_at, attempt,
                   outs, sleeps, cat_pages, cats_file, server, active, disk0, cause, df0>>

\* save_cache: CACHE_POSTS.write_text raises OSError
WritePostsFails ==
    /\ pc = "save_posts"
    /\ \E o \in WriteFailures :
          posts_file' = (IF o = "partial" THEN Corrupt ELSE posts_file)
    /\ Raise("save_posts")
    /\ UNCHANGED <<app, live, gui_pc, page, cat_map, posts, total_pages, fetched_at, attempt,
                   outs, sleeps, cat_pages, cats_file, clock, server, active, disk0, df0>>

(* --------------------------------- App ---------------------------------- *)
\* a refresh_from_api without its early return
refresh_rejected_never(ld) == FALSE

\* `if self._loading: return` of refresh_from_api
refresh_rejected(ld) == ld

\* btn_refresh.clicked -> refresh_from_api
RefreshFromApi ==
    /\ gui_pc = "idle"
    /\ IF refresh_rejected(loading)
       THEN UNCHANGED vars
       ELSE /\ loading' = TRUE
            /\ loading_total_pages' = 0
            /\ loading_current_page' = 0
            /\ df_all' = <<>>
            /\ df_view' = <<>>
            /\ list_cats' = <<>>
            /\ selected' = {}
            \* QThread + FetchWorker created and started
            /\ pc' = "ready"
            /\ page' = 0
            /\ cat_map' = EmptyMap
            /\ posts' = <<>>
            /\ total_pages' = 0
            /\ fetched_at' = 0
            /\ attempt' = 0
            /\ outs' = <<>>
            /\ sleeps' = 0
            /\ cat_pages' = <<>>
            /\ active' = active + 1
            /\ emitted' = <<>>
            /\ disk0' = <<cats_file, posts_file>>
            /\ cause' = ""
            /\ df0' = df_all
            /\ loaded' = NoCache
            /\ UNCHANGED <<live, gui_pc, date_from, date_to, search, queue, disk, clock, server>>

Handles(k) == gui_pc = "idle" /\ queue # <<>> /\ Head(queue).kind = k

\* worker.status -> lbl_status.setText
OnStatus ==
    /\ Handles("status")
    /\ queue' = Tail(queue)
    /\ UNCHANGED <<app, live, gui_pc, worker, disk, clock, server, book>>

\* worker.progress -> on_progress
OnProgress ==
    /\ Handles("progress")
    /\ queue' = Tail(queue)
    /\ loading_current_page' = Head(queue).page
    /\ loading_total_pages' = Head(queue).total
    /\ UNCHANGED <<loading, df_all, df_view, date_from, date_to, search, list_cats, selected,
                   loaded, live, gui_pc, worker, disk, clock, server, book>>

\* an on_page_events that keeps the new batch in place of the collection
on_page_events_all_replaced(all, events_list) == KeepWithStart(events_list)

\* an on_page_events that puts the new batch in front of the collection
on_page_events_all_in_front(all, events_list) == KeepWithStart(events_list) \o all

\* an on_page_events that appends the batch as it came
on_page_events_all_unfiltered(all, events_list) == all \o events_list

\* the new value of df_all in on_page_events
on_page_events_all(all, events_list) == all \o KeepWithStart(events_list)

\* worker.page_events -> on_page_events
OnPageEvents ==
    /\ Handles("page_events")
    /\ queue' = Tail(queue)
    /\ LET df_new == KeepWithStart(Head(queue).events)
       IN  IF df_new = <<>>
           THEN UNCHANGED <<df_all, df_view, list_cats>>
           ELSE /\ df_all' = on_page_events_all(df_all, Head(queue).events)
                /\ list_cats' = list_cats \o SortedStrs(CatNamesOf(df_new) \ Range(list_cats))
                /\ df_view' = IF ~live THEN df_view
                              ELSE apply_filters(loading, live, df_all', date_from, date_to,
                                                 selected, search)
    /\ UNCHANGED <<loading, loading_total_pages, loading_current_page, date_from, date_to,
                   search, selected, loaded, live, gui_pc, worker, disk, clock, server, book>>

\* worker.finished -> on_finished
OnFinished ==
    /\ Handles("finished")
    /\ queue' = Tail(queue)
    /\ loading' = FALSE
    /\ df_view' = apply_filters(FALSE, live, df_all, date_from, date_to, selected, search)
    /\ active' = active - 1
    /\ UNCHANGED <<loading_total_pages, loading_current_page, df_all, date_from, date_to,
                   search, list_cats, selected, loaded, live, gui_pc, worker, disk, clock,
                   server, emitted, disk0, cause, df0>>

\* an on_failed that leaves the active-run flag set
OnFailedStillLoading ==
    /\ Handles("failed")
    /\ queue' = Tail(queue)
    /\ active' = active - 1
    /\ UNCHANGED <<app, live, gui_pc, worker, disk, clock, server, emitted, disk0, cause, df0>>

\* worker.failed -> on_failed
OnFailed ==
    /\ Handles("failed")
    /\ queue' = Tail(queue)
    /\ loading' = FALSE
    /\ active' = active - 1
    /\ UNCHANGED <<loading_total_pages, loading_current_page, df_all, df_view, date_from, date_to,
                   search, list_cats, selected, loaded, live, gui_pc, worker, disk, clock,
                   server, emitted, disk0, cause, df0>>

\* the check box has no handler; it is enabled at all times
ToggleLive ==
    /\ gui_pc = "idle"
    /\ live' = ~live
    /\ UNCHANGED <<app, gui_pc, worker, queue, disk, clock, server, book>>

\* the filter widgets are disabled by set_controls_enabled(False) during a run
FiltersEnabled == gui_pc = "idle" /\ ~loading

\* date_from.dateChanged -> apply_filters
SetDateFrom ==
    /\ FiltersEnabled
    /\ \E d \in DatesFrom \ {date_from} :
          /\ date_from' = d
          /\ df_view' = apply_filters(loading, live, df_all, d, date_to, selected, search)
    /\ UNCHANGED <<loaded, loading, loading_total_pages, loading_current_page,
                   df_all, date_to, search,
                   list_cats, selected, live, gui_pc, worker, queue, disk, clock, server, book>>

\* date_to.dateChanged -> apply_filters
SetDateTo ==
    /\ FiltersEnabled
    /\ \E d \in DatesTo \ {date_to} :
          /\ date_to' = d
          /\ df_view' = apply_filters(loading, live, df_all, date_from, d, selected, search)
    /\ UNCHANGED <<loaded, loading, loading_total_pages, loading_current_page,
                   df_all, date_from, search,
                   list_cats, selected, live, gui_pc, worker, queue, disk, clock, server, book>>

\* txt_search.textChanged -> apply_filters
SetSearch ==
    /\ FiltersEnabled
    /\ \E q \in Searches \ {search} :
          /\ search' = q
          /\ df_view' = apply_filters(loading, live, df_all, date_from, date_to, selected, q)
    /\ UNCHANGED <<loaded, loading, loading_total_pages, loading_current_page,
                   df_all, date_from, date_to,
                   list_cats, selected, live, gui_pc, worker, queue, disk, clock, server, book>>

\* list_cats.itemSelectionChanged -> apply_filters (one item clicked)
SelectCat ==
    /\ FiltersEnabled
    /\ \E c \in Range(list_cats) :
          /\ selected' = (IF c \in selected THEN selected \ {c} ELSE selected \cup {c})
          /\ df_view' = apply_filters(loading, live, df_all, date_from, date_to, selected', search)
    /\ UNCHANGED <<loaded, loading, loading_total_pages, loading_current_page,
                   df_all, date_from, date_to,
                   search, list_cats, live, gui_pc, worker, queue, disk, clock, server, book>>

\* clear_cache, first half: CACHE_CATS.exists() / unlink(); a failing unlink
\* ends the handler in its except branch
ClearCacheCats ==
    /\ gui_pc = "idle"
    /\ \E ok \in BOOLEAN :
          IF cats_file.kind = "absent"
          THEN ok /\ gui_pc' = "clear_posts" /\ UNCHANGED cats_file
          ELSE IF ok
          THEN cats_file' = Absent /\ gui_pc' = "clear_posts"
          ELSE UNCHANGED <<cats_file, gui_pc>>
    /\ UNCHANGED <<app, live, worker, queue, posts_file, clock, server, book>>

\* clear_cache, second half: CACHE_POSTS.exists() / unlink()
ClearCachePosts ==
    /\ gui_pc = "clear_posts"
    /\ \E ok \in BOOLEAN :
          IF posts_file.kind = "absent"
          THEN ok /\ UNCHANGED posts_file
          ELSE IF ok
          THEN posts_file' = Absent
          ELSE UNCHANGED posts_file
    /\ gui_pc' = "idle"
    /\ UNCHANGED <<app, live, worker, queue, cats_file, clock, server, book>>

\* the program is closed and started again: App.__init__ with its widget
\* defaults, then load_initial() on what the cache directory holds now; the
\* worker of the previous process is gone and its variables keep their values
Relaunch ==
    /\ gui_pc = "idle"
    /\ ~loading
    /\ queue = <<>>
    /\ loaded' = load_cache(cats_file, posts_file)
    /\ df_all' = load_initial(cats_file, posts_file)[1]
    /\ list_cats' = load_initial(cats_file, posts_file)[2]
    /\ live' = FALSE
    /\ date_from' = Today
    /\ date_to' = NextYear
    /\ search' = <<>>
    /\ selected' = {}
    /\ loading_total_pages' = 0
    /\ loading_current_page' = 0
    /\ df_view' = apply_filters(FALSE, FALSE, df_all', Today, NextYear, {}, <<>>)
    /\ UNCHANGED <<loading, gui_pc, worker, queue, disk, clock, server, book>>

(* ----------------------------- specification ---------------------------- *)
\* Spec: the run, the signal handlers and the cache, under every fault of the
\* network and of the disk; the filter widgets stay as App.__init__ leaves them.
Next ==
    \/ WorkerStart \/ GetCatsOk \/ PostsStart \/ GetPostsOk \/ GetTimeout \/ GetHard
    \/ TakeTimestamp \/ WriteCats \/ WriteCatsFails \/ WritePosts \/ WritePostsFails
    \/ RefreshFromApi \/ OnStatus \/ OnProgress \/ OnPageEvents \/ OnFinished \/ OnFailed
    \/ ClearCacheCats \/ ClearCachePosts

Spec == Init /\ [][Next]_vars

\* SpecView: the run and the signal handlers together with the filter widgets and
\* the live-filter check box; no read timeouts, the cache is written without
\* failure and not cleared, and the clock stands still.
NextView ==
    \/ WorkerStart \/ GetCatsOk \/ PostsStart \/ GetPostsOk \/ GetHard
    \/ TakeTimestamp \/ WriteCats \/ WritePosts
    \/ RefreshFromApi \/ OnStatus \/ OnProgress \/ OnPageEvents \/ OnFinished \/ OnFailed
    \/ ToggleLive \/ SetDateFrom \/ SetDateTo \/ SetSearch \/ SelectCat

InitView ==
    /\ \E d \in InitDisks : cats_file = d[1] /\ posts_file = d[2]
    /\ server \in Servers
    /\ clock = MaxClock
    /\ InitApp

SpecView == InitView /\ [][NextView]_vars

\* SpecNet: the fetch phase of one run of the worker on its own, against every
\* category collection within the bounds.
InitNet ==
    /\ server \in NetServers
    /\ cats_file = Absent /\ posts_file = Absent
    /\ loading = TRUE
    /\ loading_total_pages = 0
    /\ loading_current_page = 0
    /\ live = FALSE
    /\ date_from = Today
    /\ date_to = NextYear
    /\ search = <<>>
    /\ selected = {}
    /\ loaded = NoCache
    /\ df_all = <<>>
    /\ list_cats = <<>>
    /\ df_view = <<>>
    /\ gui_pc = "idle"
    /\ pc = "ready"
    /\ page = 0
    /\ cat_map = EmptyMap
    /\ posts = <<>>
    /\ total_pages = 0
    /\ fetched_at = 0
    /\ attempt = 0
    /\ outs = <<>>
    /\ sleeps = 0
    /\ cat_pages = <<>>
    /\ queue = <<>>
    /\ clock = 0
    /\ active = 1
    /\ emitted = <<>>
    /\ disk0 = <<Absent, Absent>>
    /\ cause = ""
    /\ df0 = <<>>

NextNet ==
    \/ WorkerStart \/ GetCatsOk \/ PostsStart \/ GetPostsOk \/ GetTimeout \/ GetHard

SpecNet == InitNet /\ [][NextNet]_vars

\* SpecFeed: runs against the servers of FeedServers with the signal handlers
\* and the live-filter check box, started without a cache; the user has set the
\* date and search widgets before the first run, and nothing fails but the
\* network's hard errors.
FeedSearches == {<<>>, <<"E", "g">>}
InitFeed ==
    /\ cats_file = Absent /\ posts_file = Absent
    /\ server \in FeedServers
    /\ clock = MaxClock
    /\ loading = FALSE
    /\ loading_total_pages = 0
    /\ loading_current_page = 0
    /\ live = FALSE
    /\ date_from \in DatesFrom
    /\ date_to \in DatesTo
    /\ search \in FeedSearches
    /\ selected = {}
    /\ loaded = NoCache
    /\ df_all = <<>>
    /\ list_cats = <<>>
    /\ df_view = <<>>
    /\ gui_pc = "idle"
    /\ pc = "none"
    /\ page = 0
    /\ cat_map = EmptyMap
    /\ posts = <<>>
    /\ total_pages = 0
    /\ fetched_at = 0
    /\ attempt = 0
    /\ outs = <<>>
    /\ sleeps = 0
    /\ cat_pages = <<>>
    /\ queue = <<>>
    /\ active = 0
    /\ emitted = <<>>
    /\ disk0 = <<Absent, Absent>>
    /\ cause = ""
    /\ df0 = <<>>

NextFeed ==
    \/ WorkerStart \/ GetCatsOk \/ PostsStart \/ GetPostsOk \/ GetHard
    \/ TakeTimestamp \/ WriteCats \/ WritePosts
    \/ RefreshFromApi \/ OnStatus \/ OnProgress \/ OnPageEvents \/ OnFinished \/ OnFailed
    \/ ToggleLive

SpecFeed == InitFeed /\ [][NextFeed]_vars

\* SpecQuery: the filter widgets of a program started on a snapshot, no run.
QueryDisks ==
    LET cats == Json(DumpCats(add_entries(EmptyMap, <<Entry(1, Bor), Entry(2, Zene)>>)))
    IN  { <<Absent, Absent>>,
          <<cats, Json(DumpPosts(<<PostFair, PostFairEger, PostWine>>, 0))>>,
          <<cats, Json(DumpPosts(<<PostWine, PostBad, PostFair>>, 0))>>,
          <<cats, Json(DumpPosts(<<PostFairEger, PostFair>>, 0))>> }

InitQuery ==
    /\ \E d \in QueryDisks : cats_file = d[1] /\ posts_file = d[2]
    /\ server = ServerTwoPages
    /\ clock = 0
    /\ InitApp

NextQuery == ToggleLive \/ SetDateFrom \/ SetDateTo \/ SetSearch \/ SelectCat

SpecQuery == InitQuery /\ [][NextQuery]_vars

\* SpecStore: the persist step of a run and the next start of the program.
\* A run has fetched one page of records and taken its timestamp; the category
\* table, the records and the cache directory found at start range over the
\* sets below.
StoreCats ==
    { <<>>,
      <<Entry(1, Bor)>>,
      <<Entry(1, Bor), Entry(2, Zene)>>,
      <<Entry(12, Zene), Entry(0 - 3, Bor)>> }
StoreRecords == { <<>>, <<PostFair>>, <<PostBad, PostWine>> }
\* a category map artifact with a key that int() rejects
CatsOddKey == Json([ks \in {<<"1">>, <<"x">>} |-> IF ks = <<"1">> THEN Bor ELSE Zene])
StoreDisks ==
    { <<Absent, Absent>>,
      DiskSnapshot,
      <<DiskSnapshot[1], Absent>>,
      <<Corrupt, DiskSnapshot[2]>>,
      <<DiskSnapshot[1], NotObject>>,
      <<NotObject, DiskSnapshot[2]>>,
      <<CatsOddKey, Json([fetched_at |-> None, posts |-> Some(<<PostFair>>)])>>,
      <<DiskSnapshot[1], Json([fetched_at |-> Some(0), posts |-> None])>> }

InitStore ==
    /\ \E d \in StoreDisks : cats_file = d[1] /\ posts_file = d[2]
    /\ \E c \in StoreCats, r \in StoreRecords :
          /\ server = [cats |-> (IF c = <<>> THEN <<>> ELSE <<c>>), posts |-> <<r>>,
                       header |-> Some(<<"1">>)]
          /\ cat_map = add_entries(EmptyMap, c)
          /\ posts = r
    /\ clock = 0
    /\ loaded = NoCache
    /\ loading = TRUE
    /\ loading_total_pages = 1
    /\ loading_current_page = 1
    /\ live = FALSE
    /\ date_from = Today
    /\ date_to = NextYear
    /\ search = <<>>
    /\ selected = {}
    /\ df_all = KeepWithStart(ParseAll(posts, cat_map))
    /\ list_cats = SortedStrs(CatNamesOf(df_all))
    /\ df_view = <<>>
    /\ gui_pc = "idle"
    /\ pc = "save_cats"
    /\ page = 1
    /\ total_pages = 1
    /\ fetched_at = 0
    /\ attempt = 0
    /\ outs = <<"ok">>
    /\ sleeps = 0
    /\ cat_pages = <<>>
    /\ queue = <<>>
    /\ active = 1
    /\ emitted = <<"status", "status", "progress", "page_events">>
    /\ disk0 = <<cats_file, posts_file>>
    /\ cause = ""
    /\ df0 = load_initial(cats_file, posts_file)[1]

NextStore ==
    \/ WriteCats \/ WriteCatsFails \/ WritePosts \/ WritePostsFails
    \/ OnFinished \/ OnFailed \/ Relaunch

SpecStore == InitStore /\ [][NextStore]_vars

\* SpecLive: the whole program of Spec started without a cache, under the
\* scheduling the code relies on.  Nothing is assumed of the user, who may never
\* ask for a refresh and may click the cache button for ever.
InitLive ==
    /\ cats_file = Absent /\ posts_file = Absent
    /\ server \in Servers
    /\ clock = MaxClock
    /\ InitApp

\* the worker thread, once started, runs the statements of run between its calls
WorkerRuns == WorkerStart \/ PostsStart \/ TakeTimestamp
\* requests.get(..., timeout=30) returns or raises
NetworkAnswers == GetTimeout \/ GetHard \/ GetCatsOk \/ GetPostsOk
\* write_text returns or raises
WriteEnds == WriteCats \/ WriteCatsFails \/ WritePosts \/ WritePostsFails
\* the Qt event loop of the GUI thread takes the signal at the head of its queue
\* and calls the slot connected to it: the steps that do so are those of
\* OnStatus, OnProgress, OnPageEvents, OnFinished and OnFailed
Dequeue == gui_pc = "idle" /\ queue # <<>> /\ queue' = Tail(queue)

\* a queued signal is delivered however often clear_cache runs in between
\* (strong fairness); clear_cache, once entered, runs to its end
Fairness ==
    /\ WF_vars(WorkerRuns)
    /\ WF_vars(NetworkAnswers)
    /\ WF_vars(WriteEnds)
    /\ SF_queue(Dequeue)
    /\ WF_vars(ClearCachePosts)

SpecLive == InitLive /\ [][Next]_vars /\ Fairness

(* ------------------------------- properties ----------------------------- *)
IsPrefix(s, t) == Len(s) <= Len(t) /\ SubSeq(t, 1, Len(s)) = s
Terminal == {"finished", "failed"}
\* clear_cache has removed an artifact that existed when the run started
Cleared == \/ disk0[1].kind # "absent" /\ cats_file.kind = "absent"
           \/ disk0[2].kind # "absent" /\ posts_file.kind = "absent"

\* C1: at most one run is active at any time: a refresh request made while
\* _loading is set starts no worker and resets neither the accumulated
\* collection nor the progress counters, and _loading is cleared only by the
\* handler of the terminal signal, which is the last signal of the run.
C1_OneActiveRun ==
    /\ [](/\ active <= 1
          /\ loading <=> active = 1
          /\ ~loading => queue = <<>> /\ pc \in {"none", "done"})
    /\ [][loading =>
            /\ pc' = "ready" => pc = "ready"
            /\ active' <= active
            /\ IsPrefix(df_all, df_all')
            /\ loading_current_page' >= loading_current_page
            /\ ~loading' => /\ pc = "done"
                            /\ queue # <<>>
                            /\ Head(queue).kind \in Terminal
                            /\ queue' = <<>>]_vars

\* a run is under way, batches have arrived, and a refresh request can be made
C1_Witness ==
    /\ loading /\ active = 1 /\ gui_pc = "idle"
    /\ pc = "posts" /\ page = 2
    /\ df_all # <<>> /\ loading_current_page = 1

\* positions of the terminal signals among the signals a run has emitted
TerminalsAt == {i \in 1..Len(emitted) : emitted[i] \in Terminal}

\* C2: a run of FetchWorker.run emits exactly one terminal signal, finished
\* or failed, and it is the last signal of the run: none before run has ended,
\* and no status, progress or batch signal after it.
C2_OneTerminalSignal ==
    /\ pc = "done" => TerminalsAt = {Len(emitted)}
    /\ pc # "done" => TerminalsAt = {}

\* a run that failed after it had emitted batches
C2_Witness ==
    /\ pc = "done"
    /\ emitted[Len(emitted)] = "failed"
    /\ \E i \in 1..Len(emitted) : emitted[i] = "page_events"

\* C3: a run whose category fetch or whose fetch of a post page raised emits
\* failed and never finished, and unless clear_cache removed an artifact
\* meanwhile both cache artifacts are what they were when the run started.
C3_FetchFailureLeavesCache ==
    cause \in {"cats", "page"} =>
        /\ pc = "done"
        /\ emitted[Len(emitted)] = "failed"
        /\ \A i \in 1..Len(emitted) : emitted[i] # "finished"
        /\ ~Cleared => <<cats_file, posts_file>> = disk0

\* the fetch of post page 2 raised a hard error while a snapshot was on disk
C3_Witness ==
    /\ cause = "page" /\ page = 2 /\ outs[Len(outs)] = "hard"
    /\ disk0[1].kind = "json" /\ disk0[2].kind = "json"
    /\ ~Cleared

\* C4: persistence is all-or-nothing: when a write inside save_cache fails the
\* run reports failed and, unless clear_cache removed an artifact meanwhile,
\* both artifacts still hold the snapshot of before the run; in particular the
\* category map of the new run never stands next to the old posts envelope.
C4_AllOrNothing ==
    (cause \in {"save_cats", "save_posts"} /\ disk0[1].kind = "json" /\ disk0[2].kind = "json") =>
        /\ pc = "done"
        /\ emitted[Len(emitted)] = "failed"
        /\ ~Cleared => <<cats_file, posts_file>> = disk0

\* C5: once finished has been handled, and unless the cache was cleared, the
\* snapshot on disk loads (load_cache, load_initial) to the very collection
\* the consumer holds, in the same order.
C5_SnapshotMatchesCollection ==
    (/\ ~loading /\ pc = "done" /\ cause = ""
     /\ gui_pc = "idle"
     /\ cats_file.kind # "absent" /\ posts_file.kind # "absent")
    => load_initial(cats_file, posts_file)[1] = df_all

\* C6: after a failed run the consumer holds the collection it held before
\* the run or an empty one, never the batches of the pages fetched so far.
C6_NoPartialCollection ==
    (~loading /\ pc = "done" /\ cause # "") => df_all \in {df0, <<>>}

\* the current safe_get call has ended (returned or raised)
CallEnded == attempt = 0 /\ outs # <<>>

\* C7: safe_get with retries = 3 makes a further attempt only after a read
\* timeout and sleeps once before each further attempt: a response that
\* follows k timeouts is returned after k + 1 attempts and k sleeps, and a
\* timeout ends the call only at the third attempt, after two sleeps, with no
\* fourth attempt.
C7_RetryPolicy ==
    LET n == Len(outs)
    IN  /\ n <= Retries
        /\ ~CallEnded /\ attempt # 0 => attempt = n + 1 /\ sleeps = n
                                        /\ \A i \in 1..n : outs[i] = "timeout"
        /\ (CallEnded /\ outs[n] = "ok") =>
              /\ sleeps = n - 1
              /\ \A i \in 1..(n - 1) : outs[i] = "timeout"
              /\ pc # "done"
        /\ (CallEnded /\ outs[n] = "timeout") =>
              /\ n = Retries
              /\ sleeps = Retries - 1
              /\ pc = "done" /\ cause \in {"cats", "page"}

\* two timeouts, then a response: three attempts and two sleeps
C7_Witness == outs = <<"timeout", "timeout", "ok">> /\ sleeps = 2 /\ attempt = 0

\* C8: a connection error or non-2xx status at attempt j of safe_get, also
\* after earlier timeouts, ends the call at once: it is the last attempt, no
\* sleep follows it, and the run fails.
C8_HardErrorNotRetried ==
    \A j \in 1..Len(outs) :
        outs[j] = "hard" =>
            /\ j = Len(outs)
            /\ CallEnded
            /\ sleeps = j - 1
            /\ pc = "done" /\ cause \in {"cats", "page"}

\* a hard error at the second attempt
C8_Witness == outs = <<"timeout", "hard">> /\ pc = "done" /\ sleeps = 1

\* the entries of the given responses, in page order
RECURSIVE Flatten(_)
Flatten(pages) == IF pages = <<>> THEN <<>> ELSE Head(pages)[2] \o Flatten(Tail(pages))

\* C9: fetch_category_map asks for pages 1, 2, 3, ... in this order, stops at
\* the first empty page, and returns the table of the entries that have both
\* an id and a name on the pages before it; pages of 100, 100 and 37 entries
\* with unique ids take 4 requests and give 237 entries.
C9_CategoryPaging ==
    LET n == Len(cat_pages)
        E == Flatten(cat_pages)
        both == {i \in 1..Len(E) : E[i].id # None /\ E[i].name # None}
    IN  /\ \A i \in 1..n : cat_pages[i][1] = i
        /\ \A i \in 1..(n - 1) : cat_pages[i][2] # <<>>
        /\ \A i \in 1..n : cat_pages[i][2] =
                (IF i <= Len(server.cats) THEN server.cats[i] ELSE <<>>)
        /\ pc \in {"cats_done", "posts", "persist"} =>
              /\ n >= 1 /\ cat_pages[n][2] = <<>>
              /\ DOMAIN cat_map = {Val(E[i].id) : i \in both}
              /\ \A i \in both :
                    (\A j \in both : j > i => E[j].id # E[i].id)
                    => cat_map[Val(E[i].id)] = Val(E[i].name)
              /\ server.cats = BigCats => n = 4 /\ Cardinality(DOMAIN cat_map) = 237

\* the collection of 100 + 100 + 37 entries has been resolved
C9_Witness == pc = "cats_done" /\ server.cats = BigCats /\ Len(cat_pages) = 4

\* C10: no Event of df_all or of df_view lacks a start date or has one that
\* does not parse, whether it came from the cache or from a batch.
C10_NoUndatedEvent ==
    /\ \A i \in 1..Len(df_all) : ~IsNone(to_date(df_all[i].Kezdete))
    /\ \A i \in 1..Len(df_view) : ~IsNone(to_date(df_view[i].Kezdete))

\* a run that delivered an undated record has finished and the view shows events
C10_Witness ==
    /\ ~loading /\ pc = "done"
    /\ PostBad \in Range(posts)
    /\ df_all # <<>> /\ df_view # <<>>

\* C11: cache round-trip: when the program is started after a run has saved
\* the table T and the records R, load_cache returns a table with the id-to-name
\* pairs of T under integer keys, the record list R, and the fetched-at value
\* save_cache wrote (the clock reading of its second write).
C11_CacheRoundTrip ==
    [][(Relaunch /\ pc = "done" /\ cause = "")
        => loaded' = <<Some(cat_map), Some(posts), Some(clock)>>]_vars

\* the program was started again after a run saved a table with a negative and
\* a two-digit id and two records, over a directory that held another snapshot
C11_Witness ==
    /\ ~loading /\ pc = "done" /\ cause = ""
    /\ loaded = <<Some(cat_map), Some(posts), Some(clock)>>
    /\ DOMAIN cat_map = {12, 0 - 3}
    /\ Len(posts) = 2
    /\ clock # fetched_at
    /\ disk0 = DiskSnapshot
    /\ loaded # load_cache(disk0[1], disk0[2])

\* an artifact load_cache cannot use: missing, not JSON, or not a JSON object
Unreadable(f) == f.kind # "json"

IsSubstring(q, s) == \E i \in 0..(Len(s) - Len(q)) : SubSeq(s, i + 1, i + Len(q)) = q
\* the event meets the criteria of the widgets
Matches(e) ==
    /\ ~IsNone(to_date(e.Kezdete))
    /\ DateLeq(date_from, Val(to_date(e.Kezdete)))
    /\ DateLeq(Val(to_date(e.Kezdete)), date_to)
    /\ selected # {} => CatNamesOf(<<e>>) \cap selected # {}
    /\ search # <<>> => \/ IsSubstring(LowerStr(search), LowerStr(e.EsemenyNeve))
                        \/ IsSubstring(LowerStr(search), LowerStr(e.Helyszin))
Count(e, s) == Cardinality({i \in 1..Len(s) : s[i] = e})

\* C13: outside a run the view holds exactly the events of the collection that
\* have a start date within [date_from, date_to] (both bounds included), that
\* carry a selected category name if any is selected, and whose lowercased title
\* or place contains the lowercased query if there is one, in ascending order
\* of (start date, title).
C13_QueryExact ==
    ~loading =>
        /\ \A e \in Range(df_all) \cup Range(df_view) :
              Count(e, df_view) = (IF Matches(e) THEN Count(e, df_all) ELSE 0)
        /\ \A i \in 1..Len(df_view), j \in 1..Len(df_view) :
              i < j => KeyLeq(df_view[i], df_view[j])

\* C14: the filter and sort pipeline is idempotent: applied with the same
\* criteria to the view it has produced, it returns that view, in that order.
C14_QueryIdempotent ==
    ~loading =>
        apply_filters(loading, live, df_view, date_from, date_to, selected, search) = df_view

\* a query has kept two events of equal date and title out of three
C14_Witness ==
    /\ ~loading /\ search = <<"F", "a">>
    /\ Len(df_all) = 3 /\ Len(df_view) = 2
    /\ df_view[1] # df_view[2]
    /\ KeyLeq(df_view[1], df_view[2]) /\ KeyLeq(df_view[2], df_view[1])

\* number of signals of kind k among the first n signals of sigs
KindCount(sigs, k, n) == Cardinality({i \in 1..n : sigs[i].kind = k})
EmittedCount(k) == Cardinality({i \in 1..Len(emitted) : emitted[i] = k})
\* signals of kind k the consumer has handled in the current run
Handled(k) == EmittedCount(k) - KindCount(queue, k, Len(queue))
\* the dated events of the batches of pages 1..n, in page order
RECURSIVE BatchesUpTo(_)
BatchesUpTo(n) ==
    IF n = 0 THEN <<>>
    ELSE BatchesUpTo(n - 1) \o KeepWithStart(ParseAll(server.posts[n], cat_map))
\* run has fetched every page and has not failed
AllFetched == pc \in {"persist", "save_cats", "save_posts"} \/ (pc = "done" /\ cause = "")

\* what C15 and its amended form share: the k-th progress signal of a run
\* carries page k and the k-th batch is the batch of page k, page k + 1 is
\* fetched only when k batches have been emitted, and the collection is the
\* concatenation, in page order, of the dated events of the batches received
PageOrder ==
    pc # "none" =>
        /\ \A i \in 1..Len(queue) :
              /\ queue[i].kind = "progress" =>
                    /\ queue[i].page = Handled("progress") + KindCount(queue, "progress", i)
                    /\ queue[i].total = total_pages
              /\ queue[i].kind = "page_events" =>
                    queue[i].events =
                        ParseAll(server.posts[Handled("page_events")
                                              + KindCount(queue, "page_events", i)], cat_map)
        /\ Handled("progress") > 0 => loading_current_page = Handled("progress")
        /\ pc = "posts" => /\ EmittedCount("page_events") = page - 1
                           /\ EmittedCount("progress") = page - 1
        /\ df_all = BatchesUpTo(Handled("page_events"))

\* C15: batches reach the consumer strictly in page order (PageOrder), and a
\* run that has fetched every page has emitted progress for the pages
\* 1, 2, ..., total, each once.
C15_PageOrder ==
    /\ PageOrder
    /\ AllFetched => /\ EmittedCount("progress") = total_pages
                     /\ EmittedCount("page_events") = total_pages

\* C15 as amended: batches reach the consumer strictly in page order
\* (PageOrder), and a run that has fetched every page has emitted progress for
\* the pages 1, ..., max(1, total), each once: page 1 also when total < 1.
C15_PageOrderFromOne ==
    /\ PageOrder
    /\ AllFetched =>
          LET n == IF total_pages < 1 THEN 1 ELSE total_pages
          IN  /\ EmittedCount("progress") = n
              /\ EmittedCount("page_events") = n

\* a run of two pages has finished and the consumer holds events of both pages
C15_Witness ==
    /\ ~loading /\ pc = "done" /\ cause = ""
    /\ total_pages = 2 /\ loading_current_page = 2
    /\ Len(KeepWithStart(ParseAll(server.posts[1], cat_map))) > 0
    /\ Len(df_all) > Len(KeepWithStart(ParseAll(server.posts[1], cat_map)))

\* the page-1 response carries no X-WP-TotalPages header, or one int() rejects
HeaderOdd == IsNone(server.header) \/ IsNone(StrToInt(Val(server.header)))

\* C16: when the page-1 response carries no total-page header or a malformed
\* one, run takes total = 1: it does not fail on the header, and once it has
\* fetched every page it has fetched page 1 only.
C16_HeaderDefault ==
    HeaderOdd =>
        /\ cause # "header"
        /\ AllFetched => total_pages = 1 /\ EmittedCount("page_events") = 1

\* C17: no two operations that modify the cache are in progress at the same
\* time: clear_cache is never between its two unlink calls while save_cache is
\* between its two writes, and no step changes an artifact while save_cache
\* stays between its two writes.
C17_NoConcurrentCacheWriters ==
    /\ [](~(pc = "save_posts" /\ gui_pc = "clear_posts"))
    /\ [][(pc = "save_posts" /\ pc' = "save_posts")
             => UNCHANGED <<cats_file, posts_file>>]_vars

\* C18: every batch on the page_events channel holds only events with a start
\* date.
C18_BatchesDated ==
    \A i \in 1..Len(queue) :
        queue[i].kind = "page_events" =>
            \A j \in 1..Len(queue[i].events) : ~IsNone(queue[i].events[j].Kezdete)

\* the event has a start date
Dated(e) == ~IsNone(e.Kezdete)

\* C18 as amended: a batch on the page_events channel holds one event per
\* fetched record, dated or not; the consumer (on_page_events) drops the events
\* without a start date before it appends the batch to the collection.
C18_ConsumerDropsUndated ==
    /\ [](\A i \in 1..Len(queue) :
            queue[i].kind = "page_events" =>
                Len(queue[i].events) =
                    Len(server.posts[Handled("page_events") + KindCount(queue, "page_events", i)]))
    /\ [][(queue # <<>> /\ Head(queue).kind = "page_events" /\ queue' = Tail(queue))
             => df_all' = df_all \o Filter(Head(queue).events, Dated)]_vars

\* the consumer has handled a batch of two events, one of them undated
C18_Witness ==
    /\ pc # "none" /\ Handled("page_events") = 1
    /\ Len(server.posts[1]) = 2 /\ PostBad \in Range(server.posts[1])
    /\ Len(df_all) = 1

\* C19: parse_event never raises, whatever the raw record: no run fails inside
\* parse_event, every fetched record yields an event, a field that is missing
\* gets its fallback, and a category id absent from the table is rendered as
\* its own text.
C19_ParseNeverRaises ==
    /\ cause # "parse"
    /\ \A i \in 1..Len(posts) :
          /\ ~parse_event_raises(posts[i])
          /\ LET e == parse_event(posts[i], cat_map)
             IN  /\ e.Helyszin # <<>>
                 /\ e.Kategoria # <<>>
                 /\ posts[i] = PostWine /\ ~(7 \in DOMAIN cat_map)
                       => IsSubstring(<<"7">>, e.Kategoria)

\* C20: the view after a finished run does not depend on the delivery: it is
\* the view of the whole record sequence handed over in one batch, whatever
\* the split into pages and whether live filtering was on during the run; the
\* four splits of SplitRecords end in the same view.
C20_ViewIndependentOfBatches ==
    (~loading /\ pc = "done" /\ cause = "") =>
        /\ df_view = apply_filters(FALSE, FALSE, on_page_events_all(<<>>, ParseAll(posts, cat_map)),
                                   date_from, date_to, selected, search)
        /\ server \in SplitServers => posts = SplitRecords

\* a run that delivered SplitRecords in two batches, observed with live
\* filtering on, has finished with two events of equal date and title in view
C20_Witness ==
    /\ ~loading /\ pc = "done" /\ cause = "" /\ live
    /\ server.posts = <<SubSeq(SplitRecords, 1, 1), SubSeq(SplitRecords, 2, 4)>>
    /\ Len(df_view) >= 2
    /\ df_view[1].EsemenyNeve = df_view[2].EsemenyNeve
    /\ df_view[1].Helyszin # df_view[2].Helyszin

\* C21: every started run completes.  A run that has been started emits its
\* terminal signal (finished or failed); whenever the active-run flag is set
\* the consumer later handles that signal and clears the flag; and a refresh
\* requested while the flag is clear is accepted: it starts a new run.
RunStarted == pc = "ready" /\ loading
RunEnded == pc = "done" /\ TerminalsAt # {}
C21_RunCompletes ==
    /\ RunStarted ~> RunEnded
    /\ loading ~> (~loading /\ queue = <<>> /\ RunEnded)
    /\ [][(~loading /\ RefreshFromApi) => (loading' /\ pc' = "ready" /\ active' = 1)]_vars

\* a second run has been accepted after one that persisted its snapshot
C21_Witness ==
    /\ RunStarted
    /\ emitted = <<>>
    /\ disk0[2].kind = "json"
    /\ outs = <<>>

\* C22: the timestamp carried by the finished signal of a successful run equals
\* the fetched_at value of the envelope that run has written, the clock being
\* free to advance between any two steps of the run.
C22_FinishedStampIsStored ==
    [][WritePosts =>
          /\ queue'[Len(queue')].kind = "finished"
          /\ posts_file'.kind = "json"
          /\ posts_file'.data.fetched_at = Some(queue'[Len(queue')].fetched_at)]_vars

====
